---- MODULE Spec2Model ----
(***************************************************************************)
(* Model of the olmOCR JSONL parser component                              *)
(* (custom-langflow/components/olmocr_directory/olmocr_jsonl_parser.py).   *)
(*                                                                         *)
(* Strings that the code slices, splits or trims are sequences of          *)
(* one-character strings; offsets are 0-based as in Python and slices      *)
(* follow Python's clamping rules.  One invocation of parse_jsonl is a     *)
(* run of the actions Invoke, then one action per line (and per window of  *)
(* the fixed_size loop), then Finish; the component instance survives the  *)
(* invocation and can be invoked again, through either output method.      *)
(***************************************************************************)
EXTENDS Integers, Sequences, FiniteSets, TLC

VARIABLES
    files,           \* results/*.jsonl: a sequence of files, each a sequence of lines
    cfg,             \* the component's inputs (self.chunking_strategy, ...)
    pc,              \* "idle" | "lines" | "window" | "done"
    fi,              \* index of the file being read (for jsonl_file in jsonl_files)
    li,              \* index of the line being read (for line_num, line in enumerate(f, 1))
    doc,             \* the record json.loads returned for the current line
    all_chunks,      \* parse_jsonl's all_chunks
    docs_processed,  \* parse_jsonl's docs_processed
    chunks,          \* the chunk list of the current document
    pos,             \* _chunk_by_fixed_size's pos
    chunk_index,     \* _chunk_by_fixed_size's chunk_index
    iter,            \* iterations of the window loop made for the current document
    m_chunks,        \* self._chunks
    m_stats,         \* self._stats
    status,          \* self.status
    ret,             \* the value the last invocation returned
    log,             \* the self.log messages of the current invocation (their kinds)
    via,             \* the output method the host called: "parse_jsonl" | "get_dataframe"
    df,              \* the DataFrame get_dataframe returned (its rows)
    calls,           \* history: inputs and results of the completed invocations
    \* OlmOCRDirectory (olmocr_directory.py)
    m_output_directory,  \* self._output_directory
    m_workspace_path,    \* self._workspace_path
    m_processing_data,   \* self._processing_data
    d_pc,            \* "idle" | "process" | "return" | "raise"
    d_call,          \* the output method being called, and what it did so far
    runs,            \* the number of process_directory runs started
    d_calls          \* history: the completed calls of the output methods

\* The variables of the JSONL parser, of the directory processor
pvars == <<files, cfg, pc, fi, li, doc, all_chunks, docs_processed, chunks, pos,
           chunk_index, iter, m_chunks, m_stats, status, ret, log, via, df, calls>>
dvars == <<m_output_directory, m_workspace_path, m_processing_data, d_pc, d_call, runs,
           d_calls>>

vars == <<pvars, dvars>>

(***************************************************************************)
(* Bounds of the model.                                                    *)
(***************************************************************************)
MaxLen == 4        \* longest document text
MaxSize == 3       \* largest chunk_size and chunk_overlap
MaxMin == 3        \* largest min_chars_per_chunk
MaxMax == 2        \* largest max_chunks
MaxLines == 3      \* most lines of a JSONL file
MaxIter == 6       \* window-loop iterations followed for one document
MaxCalls == 2      \* invocations followed on one component instance

\* A Python value that may be None is a sequence of no or one element
None == <<>>
Some(v) == <<v>>

Min2(a, b) == IF a < b THEN a ELSE b
Max2(a, b) == IF a > b THEN a ELSE b

NL == "\n"
SP == " "
Whitespace == {SP, NL, "\t"}

(***************************************************************************)
(* Python sequence operations.                                             *)
(***************************************************************************)
\* A slice bound as Python normalises it for a sequence of length n.
SliceIndex(i, n) == IF i < 0 THEN Max2(i + n, 0) ELSE Min2(i, n)

\* s[a:b]
PySlice(s, a, b) ==
    LET lo == SliceIndex(a, Len(s))
        hi == SliceIndex(b, Len(s))
    IN  IF lo >= hi THEN <<>> ELSE SubSeq(s, lo + 1, hi)

\* s.strip()
RECURSIVE LStrip(_)
LStrip(s) == IF s # <<>> /\ Head(s) \in Whitespace THEN LStrip(Tail(s)) ELSE s

RECURSIVE RStrip(_)
RStrip(s) ==
    IF s # <<>> /\ s[Len(s)] \in Whitespace THEN RStrip(SubSeq(s, 1, Len(s) - 1)) ELSE s

Strip(s) == RStrip(LStrip(s))

\* s.split(sep) for a non-empty separator: the pieces between the
\* non-overlapping occurrences of sep, found left to right.
RECURSIVE SplitFrom(_, _, _)
SplitFrom(s, sep, cur) ==
    IF s = <<>> THEN <<cur>>
    ELSE IF Len(s) >= Len(sep) /\ SubSeq(s, 1, Len(sep)) = sep
         THEN <<cur>> \o SplitFrom(SubSeq(s, Len(sep) + 1, Len(s)), sep, <<>>)
         ELSE SplitFrom(Tail(s), sep, Append(cur, Head(s)))

Split(s, sep) == SplitFrom(s, sep, <<>>)

Lower(c) == CASE c = "E" -> "e" [] c = "N" -> "n" [] c = "F" -> "f" [] c = "R" -> "r"
              [] OTHER -> c

LowerStr(s) == [i \in 1..Len(s) |-> Lower(s[i])]

RECURSIVE Flatten(_)
Flatten(ss) == IF ss = <<>> THEN <<>> ELSE Head(ss) \o Flatten(Tail(ss))

Range(s) == {s[i] : i \in 1..Len(s)}

\* Path(p).name: the last component of a path
PathName(p) == IF p = <<>> THEN "" ELSE p[Len(p)]

(***************************************************************************)
(* Records.  A line of a JSONL file is blank, malformed (json.loads        *)
(* raises JSONDecodeError) or a document:                                  *)
(*   [kind |-> "doc", text, source, pages, primary_language, is_table,     *)
(*    is_diagram]                                                          *)
(* where pages is attributes.pdf_page_numbers, a sequence of               *)
(* <<start, end, page_num>>, and source is metadata["Source-File"] as the  *)
(* sequence of its path components.  The metadata that is copied through   *)
(* unchanged (pdf-total-pages, olmocr-version) is left out.                *)
(***************************************************************************)
Unknown == <<"u", "n", "k", "n", "o", "w", "n">>

\* ParseLanguageFilter without the lower()
ParseLanguageFilterAsWritten(raw) ==
    IF raw = <<>> \/ Strip(raw) = <<>> THEN <<>>
    ELSE LET parts == Split(raw, <<",">>)
             kept == SelectSeq(parts, LAMBDA l : Strip(l) # <<>>)
         IN  [i \in 1..Len(kept) |-> Strip(kept[i])]

\* _parse_language_filter
ParseLanguageFilter(raw) ==
    IF raw = <<>> \/ Strip(raw) = <<>> THEN <<>>
    ELSE LET parts == Split(raw, <<",">>)
             kept == SelectSeq(parts, LAMBDA l : Strip(l) # <<>>)
         IN  [i \in 1..Len(kept) |-> LowerStr(Strip(kept[i]))]

\* PageMeta with the last element of an attribute array for the pages past
\* its end
PageMetaRepeatingLast(d, i) ==
    LET At(array, default) ==
            IF array = <<>> THEN default ELSE array[Min2(i, Len(array))]
    IN  [page_num |-> d.pages[i][3],
         language |-> At(d.primary_language, Unknown),
         has_table |-> At(d.is_table, FALSE),
         has_diagram |-> At(d.is_diagram, FALSE)]

\* The attributes of page i (1-based here, i - 1 in the code)
PageMeta(d, i) ==
    [page_num |-> d.pages[i][3],
     language |-> IF i <= Len(d.primary_language) THEN d.primary_language[i] ELSE Unknown,
     has_table |-> IF i <= Len(d.is_table) THEN d.is_table[i] ELSE FALSE,
     has_diagram |-> IF i <= Len(d.is_diagram) THEN d.is_diagram[i] ELSE FALSE]

\* Filtered without the test of language_filter
FilteredButForLanguage(meta, c) ==
    \/ ~c.include_tables /\ meta.has_table
    \/ ~c.include_diagrams /\ meta.has_diagram

\* Filtered without the test of include_tables
FilteredButForTables(meta, c) ==
    LET language_filters == ParseLanguageFilter(c.language_filter)
    IN  \/ language_filters # <<>> /\ meta.language \notin Range(language_filters)
        \/ ~c.include_diagrams /\ meta.has_diagram

\* The three filter tests, in the order of the code
Filtered(meta, c) ==
    LET language_filters == ParseLanguageFilter(c.language_filter)
    IN  \/ language_filters # <<>> /\ meta.language \notin Range(language_filters)
        \/ ~c.include_tables /\ meta.has_table
        \/ ~c.include_diagrams /\ meta.has_diagram

\* "char_count": end - start
PageCharCount(start, end, page_text) == end - start

\* PageChunk with the page's position in place of its page number
PageChunkNumberedByPosition(d, i, n) ==
    LET start == d.pages[i][1]
        end == d.pages[i][2]
        meta == PageMeta(d, i)
        page_text == PySlice(d.text, start, end)
    IN  [text |-> page_text,
         source_file |-> PathName(d.source),
         source_file_full_path |-> d.source,
         page_number |-> i,
         language |-> meta.language,
         has_table |-> meta.has_table,
         has_diagram |-> meta.has_diagram,
         char_start |-> start,
         char_end |-> end,
         char_count |-> PageCharCount(start, end, page_text),
         chunk_index |-> n,
         chunking_strategy |-> "page"]

\* The Data object _chunk_by_page builds for page i, as the n-th chunk (from 0)
PageChunk(d, i, n) ==
    LET start == d.pages[i][1]
        end == d.pages[i][2]
        meta == PageMeta(d, i)
        page_text == PySlice(d.text, start, end)
    IN  [text |-> page_text,
         source_file |-> PathName(d.source),
         source_file_full_path |-> d.source,
         page_number |-> meta.page_num,
         language |-> meta.language,
         has_table |-> meta.has_table,
         has_diagram |-> meta.has_diagram,
         char_start |-> start,
         char_end |-> end,
         char_count |-> PageCharCount(start, end, page_text),
         chunk_index |-> n,
         chunking_strategy |-> "page"]

\* One iteration of _chunk_by_page's loop: page i kept or skipped
PageKept(d, c, i) ==
    /\ ~Filtered(PageMeta(d, i), c)
    /\ ~(Len(PySlice(d.text, d.pages[i][1], d.pages[i][2])) < c.min_chars_per_chunk)

RECURSIVE PageLoop(_, _, _, _)
PageLoop(d, c, i, acc) ==
    IF i > Len(d.pages) THEN acc
    ELSE PageLoop(d, c, i + 1,
                  IF PageKept(d, c, i) THEN Append(acc, PageChunk(d, i, Len(acc))) ELSE acc)

\* _chunk_by_page
ChunkByPage(d, c) == PageLoop(d, c, 1, <<>>)

\* Paragraphs without the strip of the paragraphs kept
ParagraphsUnstripped(page_text) ==
    LET parts == Split(page_text, <<NL, NL>>)
        kept == SelectSeq(parts, LAMBDA p : Strip(p) # <<>>)
    IN  IF kept = <<>> THEN <<page_text>> ELSE kept

\* paragraphs = [p.strip() for p in page_text.split("\n\n") if p.strip()],
\* or [page_text] when that is empty
Paragraphs(page_text) ==
    LET parts == Split(page_text, <<NL, NL>>)
        kept == SelectSeq(parts, LAMBDA p : Strip(p) # <<>>)
        stripped == [k \in 1..Len(kept) |-> Strip(kept[k])]
    IN  IF stripped = <<>> THEN <<page_text>> ELSE stripped

\* The Data object _chunk_semantic builds for paragraph para_idx (from 0) of page i
ParagraphChunk(d, i, para_idx, paragraph, n) ==
    LET meta == PageMeta(d, i)
    IN  [text |-> paragraph,
         source_file |-> PathName(d.source),
         source_file_full_path |-> d.source,
         page_number |-> meta.page_num,
         language |-> meta.language,
         has_table |-> meta.has_table,
         has_diagram |-> meta.has_diagram,
         char_count |-> Len(paragraph),
         chunk_index |-> n,
         paragraph_index |-> para_idx,
         chunking_strategy |-> "semantic"]

\* ParagraphLoop with the paragraphs numbered after the min_chars_per_chunk drop
RECURSIVE ParagraphLoopNumberingKept(_, _, _, _, _, _)
ParagraphLoopNumberingKept(d, c, i, paragraphs, k, acc) ==
    IF k > Len(paragraphs) THEN acc
    ELSE ParagraphLoopNumberingKept(d, c, i, paragraphs, k + 1,
            IF Len(paragraphs[k]) < c.min_chars_per_chunk THEN acc
            ELSE Append(acc,
                    ParagraphChunk(d, i,
                        Len(SelectSeq(acc, LAMBDA chunk : chunk.page_number = d.pages[i][3])),
                        paragraphs[k], Len(acc))))

RECURSIVE ParagraphLoop(_, _, _, _, _, _)
ParagraphLoop(d, c, i, paragraphs, k, acc) ==
    IF k > Len(paragraphs) THEN acc
    ELSE ParagraphLoop(d, c, i, paragraphs, k + 1,
            IF Len(paragraphs[k]) < c.min_chars_per_chunk THEN acc
            ELSE Append(acc, ParagraphChunk(d, i, k - 1, paragraphs[k], Len(acc))))

RECURSIVE SemanticLoop(_, _, _, _)
SemanticLoop(d, c, i, acc) ==
    IF i > Len(d.pages) THEN acc
    ELSE SemanticLoop(d, c, i + 1,
            IF Filtered(PageMeta(d, i), c) THEN acc
            ELSE ParagraphLoop(d, c, i,
                    Paragraphs(PySlice(d.text, d.pages[i][1], d.pages[i][2])), 1, acc))

\* _chunk_semantic
ChunkSemantic(d, c) == SemanticLoop(d, c, 1, <<>>)

\* CharToPage with the first of the pages that hold p
CharToPageFirst(d, p) ==
    LET holding == {i \in 1..Len(d.pages) : d.pages[i][1] <= p /\ p < d.pages[i][2]}
    IN  IF holding = {}
        THEN [page_num |-> 0, language |-> Unknown, has_table |-> FALSE,
              has_diagram |-> FALSE]
        ELSE PageMeta(d, CHOOSE i \in holding : \A j \in holding : i <= j)

\* char_to_page.get(pos, default): the page whose range(start, end) holds p,
\* the last such page when several do
CharToPage(d, p) ==
    LET holding == {i \in 1..Len(d.pages) : d.pages[i][1] <= p /\ p < d.pages[i][2]}
    IN  IF holding = {}
        THEN [page_num |-> 0, language |-> Unknown, has_table |-> FALSE,
              has_diagram |-> FALSE]
        ELSE PageMeta(d, CHOOSE i \in holding : \A j \in holding : j <= i)

\* The Data object _chunk_by_fixed_size builds for the window at p
WindowChunk(d, c, p, n) ==
    LET chunk_end == Min2(p + c.chunk_size, Len(d.text))
        chunk_text == PySlice(d.text, p, chunk_end)
        meta == CharToPage(d, p)
    IN  [text |-> chunk_text,
         source_file |-> PathName(d.source),
         source_file_full_path |-> d.source,
         page_number |-> meta.page_num,
         language |-> meta.language,
         has_table |-> meta.has_table,
         has_diagram |-> meta.has_diagram,
         char_start |-> p,
         char_end |-> chunk_end,
         char_count |-> Len(chunk_text),
         chunk_index |-> n,
         chunking_strategy |-> "fixed_size",
         chunk_size |-> c.chunk_size,
         chunk_overlap |-> c.chunk_overlap]

\* Whether the window at p passes the four tests of the loop body
WindowKept(d, c, p) ==
    /\ ~Filtered(CharToPage(d, p), c)
    /\ ~(Len(PySlice(d.text, p, Min2(p + c.chunk_size, Len(d.text)))) < c.min_chars_per_chunk)

\* NextPos without the overlap
NextPosNoOverlap(p, c) == p + c.chunk_size

\* pos += self.chunk_size - self.chunk_overlap
NextPos(p, c) == p + (c.chunk_size - c.chunk_overlap)

\* SkipPos without the overlap
SkipPosWithoutOverlap(p, c) == p + c.chunk_size

\* pos += self.chunk_size - self.chunk_overlap before each continue
SkipPos(p, c) == p + (c.chunk_size - c.chunk_overlap)

\* The while loop of _chunk_by_fixed_size from pos = p on; it ends only when
\* chunk_size - chunk_overlap > 0
RECURSIVE FixedLoop(_, _, _, _)
FixedLoop(d, c, p, acc) ==
    IF ~(p < Len(d.text)) THEN acc
    ELSE IF WindowKept(d, c, p)
         THEN FixedLoop(d, c, NextPos(p, c), Append(acc, WindowChunk(d, c, p, Len(acc))))
         ELSE FixedLoop(d, c, SkipPos(p, c), acc)

\* _chunk_by_fixed_size, when its loop ends
ChunkByFixedSize(d, c) == FixedLoop(d, c, 0, <<>>)

\* Truncate keeping the last max_chunks chunks
TruncateLast(chunks_found, max_chunks) ==
    IF max_chunks > 0 /\ Len(chunks_found) > max_chunks
    THEN SubSeq(chunks_found, Len(chunks_found) - max_chunks + 1, Len(chunks_found))
    ELSE chunks_found

\* all_chunks[:self.max_chunks] when the limit applies
Truncate(chunks_found, max_chunks) ==
    IF max_chunks > 0 /\ Len(chunks_found) > max_chunks
    THEN PySlice(chunks_found, 0, max_chunks)
    ELSE chunks_found


(***************************************************************************)
(* Inputs.                                                                 *)
(***************************************************************************)
EN == <<"e", "n">>
FR == <<"f", "r">>

\* Texts are prefixes of a\n\nb c\n a\n\nb c\n ...
Pattern == <<"a", NL, NL, "b", SP, "c", NL>>
TextOf(n) == [i \in 1..n |-> Pattern[((i - 1) % Len(Pattern)) + 1]]

Offsets == 0..(MaxLen + 1)

\* pdf_page_numbers of one page, or of two with the second starting where
\* the first ends; an end may lie before its start or beyond the text
PageLists ==
    {<< <<s, e, 3>> >> : s \in Offsets, e \in Offsets}
    \cup {<< <<0, e1, 3>>, <<e1, e, 5>> >> : e1 \in Offsets, e \in Offsets}

\* Page layouts tried with the fixed_size strategy on a text of n characters:
\* one page, two pages with a gap, two overlapping pages
FixedPageLists(n) ==
    { << <<0, n, 3>> >>,
      << <<0, 1, 3>>, <<2, n, 5>> >>,
      << <<0, n, 3>>, <<1, n + 1, 5>> >> }

MkDoc(n, pages) ==
    [kind |-> "doc", text |-> TextOf(n), source |-> <<"in", "x.pdf">>, pages |-> pages,
     primary_language |-> SubSeq(<<EN, FR>>, 1, Len(pages)),
     is_table |-> SubSeq(<<FALSE, TRUE>>, 1, Len(pages)),
     is_diagram |-> SubSeq(<<TRUE>>, 1, Min2(1, Len(pages)))]

NoDoc == [kind |-> "none"]
Bad == [kind |-> "bad"]
Blank == [kind |-> "blank"]
DocX == MkDoc(4, << <<0, 1, 3>>, <<1, 4, 5>> >>)
DocY == [kind |-> "doc", text |-> TextOf(3), source |-> <<"y.pdf">>,
         pages |-> << <<0, 3, 1>> >>, primary_language |-> <<EN>>,
         is_table |-> <<FALSE>>, is_diagram |-> <<TRUE>>]
EmptyDoc == MkDoc(0, << <<0, 0, 3>> >>)
NoPagesDoc == MkDoc(2, <<>>)

\* The defaults of the chunk_size and chunk_overlap inputs
DefaultChunkSize == 1000
DefaultChunkOverlap == 200

\* workspace_path values: the empty string, a directory that does not exist,
\* a workspace without a results directory, a workspace with one
WorkspacePaths == {"", "/missing", "/no_results", "/ws"}
WorkspaceExists(path) == path \in {"/no_results", "/ws"}
ResultsDirExists(path) == path = "/ws"

\* flt is <<language_filter, include_tables, include_diagrams>>
Config(strategy, size, overlap, flt, minc) ==
    [workspace_path |-> "/ws",
     chunking_strategy |-> strategy, chunk_size |-> size, chunk_overlap |-> overlap,
     language_filter |-> flt[1], include_tables |-> flt[2], include_diagrams |-> flt[3],
     min_chars_per_chunk |-> minc, max_chunks |-> 0]

NoFilters == << <<>>, TRUE, TRUE >>

\* One document, every page geometry, the page and semantic strategies
PageInputs ==
    {[files |-> << <<MkDoc(n, pl)>> >>,
      cfg |-> Config(st, DefaultChunkSize, DefaultChunkOverlap, NoFilters, mc)] :
        n \in 1..MaxLen, pl \in PageLists, st \in {"page", "semantic"}, mc \in 0..MaxMin}

\* One document, every chunk_size and chunk_overlap, the fixed_size strategy
FixedInputs ==
    UNION {{[files |-> << <<MkDoc(n, pl)>> >>,
             cfg |-> Config("fixed_size", sz, ov, NoFilters, mc)] :
               pl \in FixedPageLists(n), sz \in 0..MaxSize, ov \in 0..MaxSize,
               mc \in 0..MaxMin} : n \in 1..MaxLen}

LineSeqs(S, n) == UNION {[1..k -> S] : k \in 0..n}

\* Batches: no file, one file of up to MaxLines lines, or that file and a second one
BatchFiles ==
    {<<>>}
    \cup {<<f>> : f \in LineSeqs({Bad, DocX, DocY}, MaxLines)}
    \cup {<<f, <<Blank, EmptyDoc, NoPagesDoc, DocY>> >> :
            f \in LineSeqs({Bad, DocX, DocY}, MaxLines)}

\* No filter, no tables, no diagrams, English only
BatchFilters ==
    {NoFilters, << <<>>, FALSE, TRUE >>, << <<>>, TRUE, FALSE >>,
     << <<SP, "E", "n", ",">>, TRUE, TRUE >>}

BatchConfigs ==
    {Config(st, 2, 1, flt, 1) :
        st \in {"page", "semantic", "fixed_size"}, flt \in BatchFilters}

BatchInputs == {[files |-> f, cfg |-> c] : f \in BatchFiles, c \in BatchConfigs}

\* Nothing to read: no workspace path, no workspace, no results directory
MissingInputs ==
    {[files |-> <<>>, cfg |-> [c EXCEPT !.workspace_path = w]] :
        c \in BatchConfigs, w \in WorkspacePaths \ {"/ws"}}

\* A document of two pages over the same text, two paragraphs each, the
\* first paragraph shorter than the second
ParagraphDoc ==
    MkDoc(MaxLen + 2, << <<0, MaxLen + 2, 3>>, <<0, MaxLen + 2, 5>> >>)

ParagraphInputs ==
    {[files |-> << <<ParagraphDoc>> >>,
      cfg |-> Config("semantic", DefaultChunkSize, DefaultChunkOverlap, NoFilters, mc)] :
        mc \in 0..MaxMin}

\* Records json.loads accepts and the chunkers raise on: no is_table array
\* in the attributes, a page boundary of two elements
NoArrayDoc ==
    [kind |-> "doc", text |-> TextOf(3), source |-> <<"k.pdf">>,
     pages |-> << <<0, 3, 1>> >>, primary_language |-> <<EN>>, is_diagram |-> <<FALSE>>]
PairDoc ==
    [kind |-> "doc", text |-> TextOf(3), source |-> <<"v.pdf">>,
     pages |-> << <<0, 3>> >>, primary_language |-> <<EN>>, is_table |-> <<FALSE>>,
     is_diagram |-> <<FALSE>>]

\* Three files: one that fails at its second line, one at its first line,
\* one that does not fail
FailingInputs ==
    {[files |-> << <<DocY, a, DocY>>, <<b>>, <<DocY>> >>,
      cfg |-> Config(st, 2, 1, NoFilters, 1)] :
        a \in {NoArrayDoc, PairDoc, Bad}, b \in {NoArrayDoc, PairDoc},
        st \in {"page", "semantic", "fixed_size"}}

\* A chunking_strategy that is none of the three options
UnknownStrategyInputs ==
    {[files |-> << <<DocX, DocY>> >>, cfg |-> Config("auto", 2, 1, flt, 1)] :
        flt \in BatchFilters}

\* A document of two pages whose attribute arrays have one element: the
\* first page is an English table and diagram page
ShortArraysDoc ==
    [MkDoc(4, << <<0, 2, 3>>, <<2, 4, 5>> >>) EXCEPT
        !.primary_language = <<EN>>, !.is_table = <<TRUE>>, !.is_diagram = <<TRUE>>]

\* The batch filters and a language filter that lists "unknown"
ShortArraysFilters == BatchFilters \cup {<<Unknown, TRUE, TRUE>>}

ShortArraysInputs ==
    {[files |-> << <<ShortArraysDoc>> >>, cfg |-> Config(st, 2, 1, flt, 1)] :
        st \in {"page", "semantic", "fixed_size"}, flt \in ShortArraysFilters}

\* A document whose first page is "en" and whose second page is "EN"
CaseDoc ==
    [MkDoc(4, << <<0, 2, 3>>, <<2, 4, 5>> >>) EXCEPT
        !.primary_language = <<EN, <<"E", "N">> >>, !.is_table = <<FALSE, FALSE>>]

\* Spellings of the filter "en", and filters of whitespace and commas only
EnglishSpellings ==
    {<<"e", "n">>, <<SP, "E", "n", ",">>, <<"E", "N">>, <<",", "e", "N", SP>>,
     <<"e", "n", ",", SP, ",">>}
BlankSpellings == {<<SP>>, <<",">>, <<SP, ",", SP>>}

SpellingInputs ==
    {[files |-> << <<CaseDoc>> >>, cfg |-> Config(st, 2, 1, <<lf, TRUE, TRUE>>, 1)] :
        st \in {"page", "semantic", "fixed_size"},
        lf \in EnglishSpellings \cup BlankSpellings}

Inputs ==
    PageInputs \cup FixedInputs \cup BatchInputs \cup MissingInputs \cup ParagraphInputs
        \cup FailingInputs \cup UnknownStrategyInputs \cup ShortArraysInputs
        \cup SpellingInputs

(***************************************************************************)
(* The component.                                                          *)
(***************************************************************************)
\* The parser after construction, with its inputs and the files of its workspace
ParserInit(inp) ==
    /\ files = inp.files /\ cfg = inp.cfg
    /\ pc = "idle"
    /\ fi = 1
    /\ li = 1
    /\ doc = NoDoc
    /\ all_chunks = <<>>
    /\ docs_processed = 0
    /\ chunks = <<>>
    /\ pos = 0
    /\ chunk_index = 0
    /\ iter = 0
    /\ m_chunks = None
    /\ m_stats = None
    /\ status = None
    /\ ret = None
    /\ log = <<>>
    /\ via = "parse_jsonl"
    /\ df = None
    /\ calls = <<>>

\* No call of an output method of the directory processor is under way
NoDirCall == [method |-> "none", ran |-> FALSE, outcome |-> "none", run |-> 0,
              value |-> None]

\* OlmOCRDirectory.__init__
DirectoryInit ==
    /\ m_output_directory = None
    /\ m_workspace_path = None
    /\ m_processing_data = None
    /\ d_pc = "idle"
    /\ d_call = NoDirCall
    /\ runs = 0
    /\ d_calls = <<>>

Init == (\E inp \in Inputs : ParserInit(inp)) /\ DirectoryInit

\* chunk.data.get(key, default)
DataGet(chunk, key, default) == IF key \in DOMAIN chunk THEN chunk[key] ELSE default

\* Row with the length of the text as char_count
RowCountingText(chunk) ==
    [text |-> chunk.text,
     source_file |-> DataGet(chunk, "source_file", ""),
     page_number |-> DataGet(chunk, "page_number", 0),
     language |-> DataGet(chunk, "language", Unknown),
     has_table |-> DataGet(chunk, "has_table", FALSE),
     has_diagram |-> DataGet(chunk, "has_diagram", FALSE),
     char_count |-> Len(chunk.text),
     chunk_index |-> DataGet(chunk, "chunk_index", 0),
     chunking_strategy |-> DataGet(chunk, "chunking_strategy", "page")]

\* The row get_dataframe makes of a chunk
Row(chunk) ==
    [text |-> chunk.text,
     source_file |-> DataGet(chunk, "source_file", ""),
     page_number |-> DataGet(chunk, "page_number", 0),
     language |-> DataGet(chunk, "language", Unknown),
     has_table |-> DataGet(chunk, "has_table", FALSE),
     has_diagram |-> DataGet(chunk, "has_diagram", FALSE),
     char_count |-> DataGet(chunk, "char_count", 0),
     chunk_index |-> DataGet(chunk, "chunk_index", 0),
     chunking_strategy |-> DataGet(chunk, "chunking_strategy", "page")]

\* get_dataframe after its call of parse_jsonl: the rows of the DataFrame
DataframeRows(cs) == IF cs = <<>> THEN <<>> ELSE [k \in 1..Len(cs) |-> Row(cs[k])]

\* The DataFrame of the invocation that returns result, when get_dataframe made it
Dataframe(result) == IF via = "get_dataframe" THEN Some(DataframeRows(result)) ELSE df

\* What the host sees of a completed invocation
Call(result, stats) ==
    [max_chunks |-> cfg.max_chunks, via |-> via, result |-> result,
     df |-> Dataframe(result), stats |-> stats]

\* Which early return of parse_jsonl is taken, if any
EarlyReturn ==
    IF cfg.workspace_path = "" THEN "empty_path"
    ELSE IF ~WorkspaceExists(cfg.workspace_path) THEN "workspace_not_found"
    ELSE IF ~ResultsDirExists(cfg.workspace_path) THEN "results_not_found"
    ELSE IF files = <<>> THEN "no_jsonl_files"
    ELSE "none"

\* Invoke that leaves all_chunks and docs_processed as the last invocation left them
InvokeKeepingChunks ==
    /\ pc = "idle"
    /\ IF EarlyReturn # "none"
       THEN /\ status' = Some(<<>>)
            /\ ret' = Some(<<>>)
            /\ log' = IF EarlyReturn = "empty_path" THEN <<>> ELSE <<EarlyReturn>>
            /\ pc' = "done"
            /\ df' = Dataframe(<<>>)
            /\ calls' = Append(calls, Call(<<>>, m_stats))
       ELSE /\ log' = <<>>
            /\ pc' = "lines"
            /\ UNCHANGED <<status, ret, df, calls>>
    /\ fi' = 1
    /\ li' = 1
    /\ UNCHANGED <<via, files, cfg, doc, chunks, pos, chunk_index, iter, m_chunks,
                   m_stats, all_chunks, docs_processed>>
    /\ UNCHANGED dvars

\* parse_jsonl up to the loop over the files, called by the host or by
\* get_dataframe: its early returns, or all_chunks = [] and docs_processed = 0
Invoke ==
    /\ pc = "idle"
    /\ IF EarlyReturn # "none"
       THEN /\ status' = Some(<<>>)
            /\ ret' = Some(<<>>)
            /\ log' = IF EarlyReturn = "empty_path" THEN <<>> ELSE <<EarlyReturn>>
            /\ pc' = "done"
            /\ df' = Dataframe(<<>>)
            /\ calls' = Append(calls, Call(<<>>, m_stats))
            /\ UNCHANGED <<all_chunks, docs_processed>>
       ELSE /\ all_chunks' = <<>>
            /\ docs_processed' = 0
            /\ log' = <<>>
            /\ pc' = "lines"
            /\ UNCHANGED <<status, ret, df, calls>>
    /\ fi' = 1
    /\ li' = 1
    /\ UNCHANGED <<via, files, cfg, doc, chunks, pos, chunk_index, iter, m_chunks,
                   m_stats>>
    /\ UNCHANGED dvars

AtLine == pc = "lines" /\ fi <= Len(files) /\ li <= Len(files[fi])

\* if not line.strip(): continue
SkipBlank ==
    /\ AtLine
    /\ files[fi][li].kind = "blank"
    /\ li' = li + 1
    /\ UNCHANGED <<via, df, files, cfg, pc, fi, doc, all_chunks, docs_processed, chunks, pos,
                   chunk_index, iter, m_chunks, m_stats, status, ret, log, calls>>
    /\ UNCHANGED dvars

\* json.loads raises JSONDecodeError: the handler is outside the loop over
\* the lines, so the rest of the file is not read
ParseError ==
    /\ AtLine
    /\ files[fi][li].kind = "bad"
    /\ log' = Append(log, "failed_to_parse")
    /\ fi' = fi + 1
    /\ li' = 1
    /\ UNCHANGED <<via, df, files, cfg, pc, doc, all_chunks, docs_processed, chunks, pos,
                   chunk_index, iter, m_chunks, m_stats, status, ret, calls>>
    /\ UNCHANGED dvars

\* SkipEmpty leaving the loop over the lines of the file
SkipEmptyAndFile ==
    /\ AtLine
    /\ files[fi][li].kind = "doc"
    /\ files[fi][li].text = <<>> \/ files[fi][li].pages = <<>>
    /\ doc' = files[fi][li]
    /\ log' = Append(log, "skipping_empty_document")
    /\ fi' = fi + 1
    /\ li' = 1
    /\ UNCHANGED <<via, df, files, cfg, pc, all_chunks, docs_processed, chunks, pos,
                   chunk_index, iter, m_chunks, m_stats, status, ret, calls>>
    /\ UNCHANGED dvars

\* if not text or not page_boundaries: continue
SkipEmpty ==
    /\ AtLine
    /\ files[fi][li].kind = "doc"
    /\ files[fi][li].text = <<>> \/ files[fi][li].pages = <<>>
    /\ doc' = files[fi][li]
    /\ log' = Append(log, "skipping_empty_document")
    /\ li' = li + 1
    /\ UNCHANGED <<via, df, files, cfg, pc, fi, all_chunks, docs_processed, chunks, pos,
                   chunk_index, iter, m_chunks, m_stats, status, ret, calls>>
    /\ UNCHANGED dvars

\* ChunkOf with _chunk_semantic in the else branch
ChunkOfElseSemantic(d, c) ==
    IF c.chunking_strategy = "page" THEN ChunkByPage(d, c) ELSE ChunkSemantic(d, c)

\* The strategy dispatch for the strategies that are not fixed_size
ChunkOf(d, c) ==
    IF c.chunking_strategy = "semantic" THEN ChunkSemantic(d, c) ELSE ChunkByPage(d, c)

\* attributes["primary_language"], ["is_table"], ["is_diagram"] are there
HasAttributeArrays(d) == {"primary_language", "is_table", "is_diagram"} \subseteq DOMAIN d

\* Chunking record d raises: a boundary that does not unpack into (start,
\* end, page_num), or a missing attribute array where it is looked up (for
\* every page by page and semantic, for every offset of a page by fixed_size)
Raises(d, c) ==
    \E i \in 1..Len(d.pages) :
        \/ Len(d.pages[i]) # 3
        \/ /\ ~HasAttributeArrays(d)
           /\ c.chunking_strategy = "fixed_size" => d.pages[i][1] < d.pages[i][2]

\* ChunkError with the handler of the whole invocation in place of the
\* handler of the file
ChunkErrorFailingBatch ==
    /\ AtLine
    /\ files[fi][li].kind = "doc"
    /\ files[fi][li].text # <<>> /\ files[fi][li].pages # <<>>
    /\ Raises(files[fi][li], cfg)
    /\ status' = Some(<<>>)
    /\ ret' = Some(<<>>)
    /\ log' = Append(log, "error_parsing")
    /\ pc' = "done"
    /\ df' = Dataframe(<<>>)
    /\ calls' = Append(calls, Call(<<>>, m_stats))
    /\ UNCHANGED <<via, files, cfg, fi, li, doc, all_chunks, docs_processed, chunks, pos,
                   chunk_index, iter, m_chunks, m_stats>>
    /\ UNCHANGED dvars

\* _chunk_by_* raises (KeyError, ValueError): except Exception of the file's
\* try logs it, the rest of the file is not read, the next file is
ChunkError ==
    /\ AtLine
    /\ files[fi][li].kind = "doc"
    /\ files[fi][li].text # <<>> /\ files[fi][li].pages # <<>>
    /\ Raises(files[fi][li], cfg)
    /\ log' = Append(log, "error_processing")
    /\ fi' = fi + 1
    /\ li' = 1
    /\ UNCHANGED <<via, df, files, cfg, pc, doc, all_chunks, docs_processed, chunks, pos,
                   chunk_index, iter, m_chunks, m_stats, status, ret, calls>>
    /\ UNCHANGED dvars

\* A document chunked by page or by paragraph, and all_chunks.extend(chunks)
ChunkDocument ==
    /\ AtLine
    /\ files[fi][li].kind = "doc"
    /\ files[fi][li].text # <<>> /\ files[fi][li].pages # <<>>
    /\ ~Raises(files[fi][li], cfg)
    /\ cfg.chunking_strategy # "fixed_size"
    /\ doc' = files[fi][li]
    /\ chunks' = ChunkOf(files[fi][li], cfg)
    /\ all_chunks' = all_chunks \o chunks'
    /\ docs_processed' = docs_processed + 1
    /\ li' = li + 1
    /\ UNCHANGED <<via, df, files, cfg, pc, fi, pos, chunk_index, iter, m_chunks, m_stats,
                   status, ret, log, calls>>
    /\ UNCHANGED dvars

\* _chunk_by_fixed_size up to its while loop
EnterFixed ==
    /\ AtLine
    /\ files[fi][li].kind = "doc"
    /\ files[fi][li].text # <<>> /\ files[fi][li].pages # <<>>
    /\ ~Raises(files[fi][li], cfg)
    /\ cfg.chunking_strategy = "fixed_size"
    /\ doc' = files[fi][li]
    /\ chunks' = <<>>
    /\ pos' = 0
    /\ chunk_index' = 0
    /\ iter' = 0
    /\ pc' = "window"
    /\ UNCHANGED <<via, df, files, cfg, fi, li, all_chunks, docs_processed, m_chunks, m_stats,
                   status, ret, log, calls>>
    /\ UNCHANGED dvars

\* One iteration of while pos < len(text)
FixedStep ==
    /\ pc = "window"
    /\ pos < Len(doc.text)
    /\ iter < MaxIter
    /\ IF WindowKept(doc, cfg, pos)
       THEN /\ chunks' = Append(chunks, WindowChunk(doc, cfg, pos, chunk_index))
            /\ chunk_index' = chunk_index + 1
            /\ pos' = NextPos(pos, cfg)
       ELSE /\ pos' = SkipPos(pos, cfg)
            /\ UNCHANGED <<chunks, chunk_index>>
    /\ iter' = iter + 1
    /\ UNCHANGED <<via, df, files, cfg, pc, fi, li, doc, all_chunks, docs_processed, m_chunks,
                   m_stats, status, ret, log, calls>>
    /\ UNCHANGED dvars

\* The loop ends, _chunk_by_fixed_size returns, all_chunks.extend(chunks)
FixedReturn ==
    /\ pc = "window"
    /\ ~(pos < Len(doc.text))
    /\ all_chunks' = all_chunks \o chunks
    /\ docs_processed' = docs_processed + 1
    /\ li' = li + 1
    /\ pc' = "lines"
    /\ UNCHANGED <<via, df, files, cfg, fi, doc, chunks, pos, chunk_index, iter, m_chunks,
                   m_stats, status, ret, log, calls>>
    /\ UNCHANGED dvars

\* The loop over the lines of a file ends
EndOfFile ==
    /\ pc = "lines"
    /\ fi <= Len(files)
    /\ li > Len(files[fi])
    /\ fi' = fi + 1
    /\ li' = 1
    /\ UNCHANGED <<via, df, files, cfg, pc, doc, all_chunks, docs_processed, chunks, pos,
                   chunk_index, iter, m_chunks, m_stats, status, ret, log, calls>>
    /\ UNCHANGED dvars

\* Finish with total_chunks counted before the max_chunks limit
FinishCountingFound ==
    /\ pc = "lines"
    /\ fi > Len(files)
    /\ all_chunks' = Truncate(all_chunks, cfg.max_chunks)
    /\ m_chunks' = Some(all_chunks')
    /\ m_stats' = Some(
                  [total_chunks |-> Len(all_chunks),
                   documents_processed |-> docs_processed,
                   jsonl_files |-> Len(files),
                   chunking_strategy |-> cfg.chunking_strategy])
    /\ status' = Some(all_chunks')
    /\ ret' = Some(all_chunks')
    /\ log' = IF all_chunks' # all_chunks THEN Append(log, "limiting_output") ELSE log
    /\ pc' = "done"
    /\ df' = Dataframe(all_chunks')
    /\ calls' = Append(calls, Call(all_chunks', m_stats'))
    /\ UNCHANGED <<via, files, cfg, fi, li, doc, docs_processed, chunks, pos, chunk_index,
                   iter>>
    /\ UNCHANGED dvars

\* After the last file: the max_chunks limit, the stored results, the return
Finish ==
    /\ pc = "lines"
    /\ fi > Len(files)
    /\ all_chunks' = Truncate(all_chunks, cfg.max_chunks)
    /\ m_chunks' = Some(all_chunks')
    /\ m_stats' = Some(
                  [total_chunks |-> Len(all_chunks'),
                   documents_processed |-> docs_processed,
                   jsonl_files |-> Len(files),
                   chunking_strategy |-> cfg.chunking_strategy])
    /\ status' = Some(all_chunks')
    /\ ret' = Some(all_chunks')
    /\ log' = IF all_chunks' # all_chunks THEN Append(log, "limiting_output") ELSE log
    /\ pc' = "done"
    /\ df' = Dataframe(all_chunks')
    /\ calls' = Append(calls, Call(all_chunks', m_stats'))
    /\ UNCHANGED <<via, files, cfg, fi, li, doc, docs_processed, chunks, pos, chunk_index,
                   iter>>
    /\ UNCHANGED dvars

\* The host switches the max_chunks limit on or off and calls parse_jsonl
SetMaxChunks(n) ==
    /\ pc = "done"
    /\ Len(calls) < MaxCalls
    /\ IF cfg.max_chunks = 0 THEN n > 0 ELSE n = 0
    /\ cfg' = [cfg EXCEPT !.max_chunks = n]
    /\ via' = "parse_jsonl"
    /\ pc' = "idle"
    /\ UNCHANGED <<df, files, fi, li, doc, all_chunks, docs_processed, chunks, pos,
                   chunk_index, iter, m_chunks, m_stats, status, ret, log, calls>>
    /\ UNCHANGED dvars

\* The host calls get_dataframe, which starts by calling parse_jsonl
GetDataframe ==
    /\ pc = "done"
    /\ Len(calls) < MaxCalls
    /\ via' = "get_dataframe"
    /\ pc' = "idle"
    /\ UNCHANGED <<df, files, cfg, fi, li, doc, all_chunks, docs_processed, chunks, pos,
                   chunk_index, iter, m_chunks, m_stats, status, ret, log, calls>>
    /\ UNCHANGED dvars

Next ==
    \/ Invoke
    \/ SkipBlank
    \/ ParseError
    \/ SkipEmpty
    \/ ChunkError
    \/ ChunkDocument
    \/ EnterFixed
    \/ FixedStep
    \/ FixedReturn
    \/ EndOfFile
    \/ Finish
    \/ \E n \in 0..MaxMax : SetMaxChunks(n)
    \/ GetDataframe

Spec == Init /\ [][Next]_vars


(***************************************************************************)
(* Properties.                                                             *)
(***************************************************************************)
Returned == pc = "done"

\* The document in doc has been chunked and chunks is its chunk list
DocChunked ==
    /\ doc.kind = "doc"
    /\ doc.text # <<>> /\ doc.pages # <<>>
    /\ pc = "window" => ~(pos < Len(doc.text))

NoFilter ==
    /\ ParseLanguageFilter(cfg.language_filter) = <<>>
    /\ cfg.include_tables
    /\ cfg.include_diagrams

IsDocument(line) == line.kind = "doc" /\ line.text # <<>> /\ line.pages # <<>>

\* The chunk lists of all the documents of all the files, one after the other
ChunksOfAllDocuments(fs, c) ==
    Flatten([f \in 1..Len(fs) |->
        Flatten([l \in 1..Len(fs[f]) |->
            IF IsDocument(fs[f][l]) /\ ~Raises(fs[f][l], c)
            THEN ChunkOf(fs[f][l], c) ELSE <<>>])])

MalformedLines(fs) ==
    Len(Flatten([f \in 1..Len(fs) |-> SelectSeq(fs[f], LAMBDA line : line.kind = "bad")]))

\* The malformed lines an invocation reads: the first one of each file
MalformedLinesMet(fs) ==
    Cardinality({f \in 1..Len(fs) : \E l \in 1..Len(fs[f]) : fs[f][l].kind = "bad"})

\* C1: with fixed_size and chunk_overlap >= chunk_size no chunk is produced
\* for any document (the invocation fails before chunking).
C1_NoChunkWhenOverlapNotBelowSize ==
    (cfg.chunking_strategy = "fixed_size" /\ cfg.chunk_overlap >= cfg.chunk_size)
        => chunks = <<>> /\ all_chunks = <<>>

\* C2: the window loop makes at most len(text) iterations and each iteration
\* moves the window position forward.
C2_WindowLoopAdvances ==
    [][(pc = "window" /\ pc' = "window") => (pos' > pos /\ iter' <= Len(doc.text))]_vars

\* C3: an invocation returns the chunks of every valid line of every file,
\* whether or not a malformed line comes before it (page and semantic
\* strategies, no max_chunks limit).
C3_ValidLinesYieldTheirChunks ==
    (Returned /\ files # <<>> /\ cfg.max_chunks = 0
        /\ cfg.chunking_strategy # "fixed_size")
        => ret = Some(ChunksOfAllDocuments(files, cfg))

\* C4: after an invocation one of the counts of the statistics is the
\* number of malformed lines: of all those of the input, or of those the
\* invocation met.
C4_MalformedLinesCounted ==
    (Returned /\ m_stats # None)
        => \E k \in {"total_chunks", "documents_processed", "jsonl_files"} :
              m_stats[1][k] \in {MalformedLines(files), MalformedLinesMet(files)}

\* C5: char_count of every chunk is the length of its text.
C5_CharCountIsTextLength ==
    \A k \in 1..Len(all_chunks) : all_chunks[k].char_count = Len(all_chunks[k].text)

\* C6: char_count of every chunk is at least min_chars_per_chunk.
C6_CharCountAtLeastFloor ==
    \A k \in 1..Len(all_chunks) : all_chunks[k].char_count >= cfg.min_chars_per_chunk

\* C7: the k-th chunk (from 0) an invocation returns has chunk_index k.
C7_ChunkIndexIsPosition ==
    Returned => \A k \in 1..Len(ret[1]) : ret[1][k].chunk_index = k - 1

\* C8: an invocation with max_chunks = N > 0 returns the first min(N, total)
\* chunks of what an invocation with max_chunks = 0 returns on the same
\* input, in the same order; an invocation with max_chunks = 0 returns all
\* the chunks found.
C8_MaxChunksTruncates ==
    /\ [](\A i \in 1..Len(calls), j \in 1..Len(calls) :
            (calls[i].max_chunks = 0 /\ calls[j].max_chunks > 0)
                => calls[j].result =
                     SubSeq(calls[i].result, 1,
                            Min2(calls[j].max_chunks, Len(calls[i].result))))
    /\ [][(pc = "lines" /\ pc' = "done" /\ cfg.max_chunks = 0)
            => ret' = Some(all_chunks)]_vars

\* C8 witness: an invocation with a limit returned fewer chunks than the one
\* without
C8_Witness ==
    \E i \in 1..Len(calls), j \in 1..Len(calls) :
        /\ calls[i].max_chunks = 0
        /\ calls[j].max_chunks > 0
        /\ Len(calls[i].result) > calls[j].max_chunks
        /\ Len(calls[j].result) = calls[j].max_chunks

\* C9: with the page strategy the chunks of a document are cut from a
\* subsequence of its page boundaries, in boundary order: text is
\* text[start:end], char_start, char_end and page_number are the boundary's.
C9_PageChunksFollowBoundaries ==
    (DocChunked /\ cfg.chunking_strategy = "page")
        => /\ Len(chunks) <= Len(doc.pages)
           /\ \E f \in [1..Len(chunks) -> 1..Len(doc.pages)] :
                /\ \A k \in 1..Len(chunks) : k > 1 => f[k - 1] < f[k]
                /\ \A k \in 1..Len(chunks) :
                     /\ chunks[k].text = PySlice(doc.text, doc.pages[f[k]][1],
                                                 doc.pages[f[k]][2])
                     /\ chunks[k].char_start = doc.pages[f[k]][1]
                     /\ chunks[k].char_end = doc.pages[f[k]][2]
                     /\ chunks[k].page_number = doc.pages[f[k]][3]

\* C9 witness: of two pages the first was dropped and the second kept
C9_Witness ==
    /\ DocChunked
    /\ cfg.chunking_strategy = "page"
    /\ Len(doc.pages) = 2
    /\ Len(chunks) = 1
    /\ chunks[1].page_number = doc.pages[2][3]
    /\ chunks[1].text # <<>>

\* The window loop of a document has ended, 0 <= chunk_overlap < chunk_size
\* and no filter is set
FixedLoopEnded ==
    /\ cfg.chunking_strategy = "fixed_size"
    /\ pc = "window"
    /\ ~(pos < Len(doc.text))
    /\ 0 <= cfg.chunk_overlap /\ cfg.chunk_overlap < cfg.chunk_size
    /\ NoFilter

\* The offsets k * (chunk_size - chunk_overlap) below len(text)
WindowStarts ==
    {s \in 0..(Len(doc.text) - 1) : s % (cfg.chunk_size - cfg.chunk_overlap) = 0}

WindowEnd(s) == Min2(s + cfg.chunk_size, Len(doc.text))

\* chunks holds exactly one chunk for every offset of S, in increasing order,
\* each the window text[s : min(s + chunk_size, len(text))]
ChunksAreWindowsAt(S) ==
    /\ Len(chunks) = Cardinality(S)
    /\ \A k \in 1..Len(chunks) :
         /\ chunks[k].char_start \in S
         /\ k > 1 => chunks[k - 1].char_start < chunks[k].char_start
         /\ chunks[k].char_end = WindowEnd(chunks[k].char_start)
         /\ chunks[k].text =
              SubSeq(doc.text, chunks[k].char_start + 1, chunks[k].char_end)

\* C10 as claimed: a chunk starts at every offset k * (chunk_size -
\* chunk_overlap) < len(text); only the last window, when shorter than
\* chunk_size, is subject to min_chars_per_chunk.
C10_OnlyFinalWindowDropped ==
    FixedLoopEnded
        => LET last == CHOOSE s \in WindowStarts : \A t \in WindowStarts : t <= s
           IN  ChunksAreWindowsAt(
                 {s \in WindowStarts :
                    \/ s # last
                    \/ WindowEnd(s) - s >= cfg.chunk_size
                    \/ WindowEnd(s) - s >= cfg.min_chars_per_chunk})

\* C10 amended: a chunk starts at exactly those offsets k * (chunk_size -
\* chunk_overlap) < len(text) whose window text[start : min(start +
\* chunk_size, len(text))] has at least min_chars_per_chunk characters.
C10_WindowsAtEveryStep ==
    FixedLoopEnded
        => ChunksAreWindowsAt(
             {s \in WindowStarts : WindowEnd(s) - s >= cfg.min_chars_per_chunk})

\* C10 witness: four overlapping windows, the last two shorter than
\* chunk_size and dropped
C10_Witness ==
    /\ FixedLoopEnded
    /\ cfg.chunk_overlap > 0
    /\ Cardinality(WindowStarts) = 4
    /\ Len(chunks) = 2
    /\ chunks[2].char_count = cfg.chunk_size

(***************************************************************************)
(* C11: invocations of one input and one configuration                     *)
(***************************************************************************)

IsTablePage(d, i) == i <= Len(d.is_table) /\ d.is_table[i]
IsDiagramPage(d, i) == i <= Len(d.is_diagram) /\ d.is_diagram[i]

PageOrSemantic == cfg.chunking_strategy # "fixed_size"

\* C12: with the page or the semantic strategy and include_tables = false,
\* every chunk of a document has has_table = false and the page_number of
\* a page whose is_table flag is not true; the same with include_diagrams
\* = false, has_diagram and is_diagram; and no returned chunk is flagged.
C12_FlaggedPagesExcluded ==
    /\ DocChunked /\ PageOrSemantic /\ ~cfg.include_tables
         => \A k \in 1..Len(chunks) :
              /\ ~chunks[k].has_table
              /\ \E i \in 1..Len(doc.pages) :
                   doc.pages[i][3] = chunks[k].page_number /\ ~IsTablePage(doc, i)
    /\ DocChunked /\ PageOrSemantic /\ ~cfg.include_diagrams
         => \A k \in 1..Len(chunks) :
              /\ ~chunks[k].has_diagram
              /\ \E i \in 1..Len(doc.pages) :
                   doc.pages[i][3] = chunks[k].page_number /\ ~IsDiagramPage(doc, i)
    /\ Returned /\ PageOrSemantic
         => \A k \in 1..Len(ret[1]) :
              /\ ~cfg.include_tables => ~ret[1][k].has_table
              /\ ~cfg.include_diagrams => ~ret[1][k].has_diagram

\* C12 witness: a semantic run over a document with a table page and
\* another page, include_tables = false, the other page's chunks emitted
C12_Witness ==
    /\ DocChunked /\ cfg.chunking_strategy = "semantic" /\ ~cfg.include_tables
    /\ \E i \in 1..Len(doc.pages) : IsTablePage(doc, i)
    /\ \E i \in 1..Len(doc.pages) :
         /\ IsTablePage(doc, i)
         /\ Len(PySlice(doc.text, doc.pages[i][1], doc.pages[i][2])) >= cfg.min_chars_per_chunk
    /\ chunks # <<>>

(***************************************************************************)
(* C13: language_filter                                                    *)
(***************************************************************************)

\* The chunk list of document d under configuration c, whatever the strategy
ChunksOfDocument(d, c) ==
    IF c.chunking_strategy = "fixed_size" THEN ChunkByFixedSize(d, c) ELSE ChunkOf(d, c)

\* Document d with the language of every page replaced by another value
OtherLanguage == <<"z", "z">>
Relabelled(d) ==
    [d EXCEPT !.primary_language = [i \in 1..Len(d.pages) |-> OtherLanguage]]

\* A chunk list without the language metadata
WithoutLanguage(cs) == [k \in 1..Len(cs) |-> [cs[k] EXCEPT !.language = Unknown]]

\* C13: for every strategy, with a non-empty language_filter the language
\* of every chunk of a document, and of every returned chunk, is a member
\* of the filter; with an empty language_filter the chunks of a document
\* are, but for their language metadata, those of the same document with
\* every page's language replaced by another value.
C13_LanguageFilter ==
    LET language_filters == ParseLanguageFilter(cfg.language_filter)
    IN  /\ DocChunked /\ language_filters # <<>>
             => \A k \in 1..Len(chunks) : chunks[k].language \in Range(language_filters)
        /\ Returned /\ language_filters # <<>>
             => \A k \in 1..Len(ret[1]) : ret[1][k].language \in Range(language_filters)
        /\ DocChunked /\ language_filters = <<>>
             => WithoutLanguage(chunks) =
                    WithoutLanguage(ChunksOfDocument(Relabelled(doc), cfg))

\* C13 witness: a fixed_size run with a language filter over a document
\* with a page in a language of the filter and a page in another language,
\* some window emitted
C13_Witness ==
    LET language_filters == ParseLanguageFilter(cfg.language_filter)
    IN  /\ DocChunked /\ cfg.chunking_strategy = "fixed_size"
        /\ language_filters # <<>>
        /\ \E i \in 1..Len(doc.pages) : PageMeta(doc, i).language \notin Range(language_filters)
        /\ chunks # <<>>

(***************************************************************************)
(* C14: chunks and the pages the filters exclude                           *)
(***************************************************************************)

\* The offsets of the document's text a chunk was cut from: its
\* [char_start, char_end) when it carries them, the range of its page when
\* it does not (semantic chunks)
ChunkOffsets(d, chunk) ==
    IF "char_start" \in DOMAIN chunk
    THEN {p \in 0..(Len(d.text) - 1) : chunk.char_start <= p /\ p < chunk.char_end}
    ELSE {p \in 0..(Len(d.text) - 1) :
            \E i \in 1..Len(d.pages) :
                /\ d.pages[i][3] = chunk.page_number
                /\ d.pages[i][1] <= p /\ p < d.pages[i][2]}

\* The offsets of the pages a filter excludes
ExcludedOffsets(d, c) ==
    {p \in 0..(Len(d.text) - 1) :
        \E i \in 1..Len(d.pages) :
            /\ Filtered(PageMeta(d, i), c)
            /\ d.pages[i][1] <= p /\ p < d.pages[i][2]}

\* C14 as claimed: for every strategy, fixed_size included, no chunk of a
\* document holds a character of a page excluded by language_filter,
\* include_tables or include_diagrams.
C14_NoChunkSpansExclusion ==
    DocChunked
        => \A k \in 1..Len(chunks) :
             ChunkOffsets(doc, chunks[k]) \cap ExcludedOffsets(doc, cfg) = {}

(***************************************************************************)
(* C15: semantic strategy, a page without blank-line boundary              *)
(***************************************************************************)

PageText(d, i) == PySlice(d.text, d.pages[i][1], d.pages[i][2])

\* No two consecutive newline characters
NoBlankLine(s) == \A k \in 1..(Len(s) - 1) : ~(s[k] = NL /\ s[k + 1] = NL)

\* The pages of d have different page numbers
DistinctPageNumbers(d) ==
    \A i, j \in 1..Len(d.pages) : d.pages[i][3] = d.pages[j][3] => i = j

\* The chunks of page i among the chunks of its document
ChunksOfPage(d, i, cs) == SelectSeq(cs, LAMBDA chunk : chunk.page_number = d.pages[i][3])

\* The pages C15 is about
UnfilteredPlainPages ==
    IF DocChunked /\ cfg.chunking_strategy = "semantic" /\ DistinctPageNumbers(doc)
    THEN {i \in 1..Len(doc.pages) :
            ~Filtered(PageMeta(doc, i), cfg) /\ NoBlankLine(PageText(doc, i))}
    ELSE {}

\* C15 as claimed: a non-filtered page without blank-line boundary whose
\* text clears min_chars_per_chunk yields exactly one semantic chunk, and
\* its text is the whole page text text[start:end], leading and trailing
\* whitespace included.
C15_WholePageText ==
    \A i \in UnfilteredPlainPages :
        Len(PageText(doc, i)) >= cfg.min_chars_per_chunk
            => /\ Len(ChunksOfPage(doc, i, chunks)) = 1
               /\ ChunksOfPage(doc, i, chunks)[1].text = PageText(doc, i)

\* The page text without its leading and trailing whitespace, and the
\* page text itself when it is nothing but whitespace
Trimmed(s) == IF Strip(s) = <<>> THEN s ELSE Strip(s)

\* C15 amended: a non-filtered page without blank-line boundary yields
\* exactly one semantic chunk, whose text is the page text without its
\* leading and trailing whitespace, when that trimmed text has at least
\* min_chars_per_chunk characters, and no chunk when it has not.
C15_TrimmedPageText ==
    \A i \in UnfilteredPlainPages :
        IF Len(Trimmed(PageText(doc, i))) >= cfg.min_chars_per_chunk
        THEN /\ Len(ChunksOfPage(doc, i, chunks)) = 1
             /\ ChunksOfPage(doc, i, chunks)[1].text = Trimmed(PageText(doc, i))
        ELSE ChunksOfPage(doc, i, chunks) = <<>>

\* C15 witness: a page without blank-line boundary that ends with a
\* newline, emitted as one chunk without the newline
C15_Witness ==
    \E i \in UnfilteredPlainPages :
        /\ PageText(doc, i) # <<>>
        /\ PageText(doc, i)[Len(PageText(doc, i))] = NL
        /\ Strip(PageText(doc, i)) # <<>>
        /\ Len(ChunksOfPage(doc, i, chunks)) = 1
        /\ ChunksOfPage(doc, i, chunks)[1].text = Strip(PageText(doc, i))

(***************************************************************************)
(* C16: records with empty text or without page boundaries                 *)
(***************************************************************************)

IsEmptyRecord(line) == line.kind = "doc" /\ (line.text = <<>> \/ line.pages = <<>>)

\* Reading the line ends the reading of its file: a malformed line, or a
\* record whose chunking raises
EndsFile(line, c) == line.kind = "bad" \/ (IsDocument(line) /\ Raises(line, c))

\* The lines of a file the loop reads to their end: those before the first
\* line that ends the reading of the file
RECURSIVE LinesRead(_, _, _)
LinesRead(f, c, k) ==
    IF k > Len(f) \/ EndsFile(f[k], c) THEN <<>> ELSE <<f[k]>> \o LinesRead(f, c, k + 1)

\* The files without their empty records
WithoutEmptyRecords(fs) ==
    [f \in 1..Len(fs) |-> SelectSeq(fs[f], LAMBDA line : ~IsEmptyRecord(line))]

\* The chunks of the records read in files without empty records
ChunksOfRecordsRead(fs, c) ==
    Flatten([f \in 1..Len(fs) |->
        LET lines == LinesRead(fs[f], c, 1)
        IN  Flatten([l \in 1..Len(lines) |->
                IF lines[l].kind = "doc" THEN ChunksOfDocument(lines[l], c) ELSE <<>>])])

\* C16: an invocation over files with empty records (empty text or no
\* page boundaries) returns, and returns the chunks it would return for
\* the same files without these records: they yield no chunk and the lines
\* and files after them are read.
C16_EmptyRecordsYieldNothing ==
    Returned /\ EarlyReturn = "none" /\ cfg.max_chunks = 0
        => ret = Some(ChunksOfRecordsRead(WithoutEmptyRecords(files), cfg))

\* C16 witness: a file with an empty-text record, a record without page
\* boundaries and then y.pdf, whose chunk is returned
C16_Witness ==
    /\ Returned /\ cfg.max_chunks = 0
    /\ Len(files) = 2
    /\ \A l \in 1..Len(files[1]) : files[1][l] # DocY
    /\ \E l, m, n \in 1..Len(files[2]) :
         /\ l < n /\ m < n
         /\ files[2][l].kind = "doc" /\ files[2][l].text = <<>>
         /\ files[2][m].kind = "doc" /\ files[2][m].pages = <<>>
         /\ files[2][n] = DocY
    /\ \E k \in 1..Len(ret[1]) : ret[1][k].source_file = PathName(DocY.source)

(***************************************************************************)
(* C17: empty or missing input                                             *)
(***************************************************************************)

\* C17 as claimed: an invocation whose workspace path is empty, whose
\* workspace or results directory does not exist, or that finds no JSONL
\* file, returns the empty chunk sequence, and the statistics the component
\* holds after it report documents processed = 0 and chunks = 0.
C17_EmptyInputReported ==
    Returned /\ EarlyReturn # "none"
        => /\ ret = Some(<<>>)
           /\ m_stats # None
           /\ m_stats[1].documents_processed = 0
           /\ m_stats[1].total_chunks = 0

(***************************************************************************)
(* C18, C19: page numbers and offsets of the chunks                        *)
(***************************************************************************)

\* The page numbers the document reports
PageNumbers(d) == {d.pages[i][3] : i \in 1..Len(d.pages)}

\* C18 as claimed: for every strategy the page_number of a chunk is the
\* page number of one of its document's page boundaries, also for a
\* fixed_size window whose start offset lies in no boundary.
C18_PageNumberOfABoundary ==
    DocChunked => \A k \in 1..Len(chunks) : chunks[k].page_number \in PageNumbers(doc)

\* C19 as claimed: every chunk carries char_start and char_end with
\* 0 <= char_start <= char_end <= len(text) and its text is
\* text[char_start:char_end] of its document.
C19_TextIsTheSliceOfItsOffsets ==
    DocChunked
        => \A k \in 1..Len(chunks) :
             /\ {"char_start", "char_end"} \subseteq DOMAIN chunks[k]
             /\ 0 <= chunks[k].char_start
             /\ chunks[k].char_start <= chunks[k].char_end
             /\ chunks[k].char_end <= Len(doc.text)
             /\ chunks[k].text =
                  SubSeq(doc.text, chunks[k].char_start + 1, chunks[k].char_end)

(***************************************************************************)
(* C20: get_dataframe                                                      *)
(***************************************************************************)

RowFields ==
    {"text", "source_file", "page_number", "language", "has_table", "has_diagram",
     "char_count", "chunk_index", "chunking_strategy"}

\* The rows are the chunks, field by field and in their order
RowsOfChunks(rows, cs) ==
    /\ Len(rows) = Len(cs)
    /\ \A k \in 1..Len(cs) :
         /\ DOMAIN rows[k] = RowFields
         /\ \A field \in RowFields : rows[k][field] = cs[k][field]

\* C20: the DataFrame of an invocation of get_dataframe has one row per
\* chunk that an invocation of parse_jsonl with the same input and
\* configuration returns, in their order, with the chunk's text,
\* source_file, page_number, language, has_table, has_diagram, char_count,
\* chunk_index and chunking_strategy; no chunk gives the empty table.
C20_DataframeRowsAreTheChunks ==
    \A j \in 1..Len(calls) :
        calls[j].via = "get_dataframe"
            => /\ calls[j].df # None
               /\ \A i \in 1..Len(calls) :
                    calls[i].max_chunks = calls[j].max_chunks
                        => RowsOfChunks(calls[j].df[1], calls[i].result)

\* C20 witness: get_dataframe called after parse_jsonl with the same
\* configuration, a table of two rows or more
C20_Witness ==
    /\ Len(calls) >= 2
    /\ calls[1].via = "parse_jsonl" /\ calls[2].via = "get_dataframe"
    /\ calls[1].max_chunks = calls[2].max_chunks
    /\ calls[2].df # None
    /\ Len(calls[2].df[1]) >= 2
    /\ Len(calls[1].result) = Len(calls[2].df[1])

(***************************************************************************)
(* C21: fixed_size strategy, the metadata of a window                      *)
(***************************************************************************)

\* The page boundaries whose [start, end) holds offset p
PagesHolding(d, p) == {i \in 1..Len(d.pages) : d.pages[i][1] <= p /\ p < d.pages[i][2]}

\* The chunk has the page number and the attributes of page i
HasMetadataOfPage(chunk, d, i) ==
    /\ chunk.page_number = d.pages[i][3]
    /\ chunk.language = PageMeta(d, i).language
    /\ chunk.has_table = IsTablePage(d, i)
    /\ chunk.has_diagram = IsDiagramPage(d, i)

\* C21: the page_number, language, has_table and has_diagram of every
\* fixed_size chunk whose start offset lies in a page boundary are those
\* of the last listed of the boundaries that hold its start offset,
\* whatever pages the rest of the window covers.
C21_MetadataOfStartPage ==
    DocChunked /\ cfg.chunking_strategy = "fixed_size"
        => \A k \in 1..Len(chunks) :
             LET holding == PagesHolding(doc, chunks[k].char_start)
             IN  holding # {}
                   => \E i \in holding :
                        /\ \A j \in holding : j <= i
                        /\ HasMetadataOfPage(chunks[k], doc, i)

\* C21 witness: a window that starts in the first page only and runs into
\* the second, and a window that starts where the two boundaries overlap
C21_Witness ==
    /\ DocChunked /\ cfg.chunking_strategy = "fixed_size"
    /\ \E k \in 1..Len(chunks) :
         /\ PagesHolding(doc, chunks[k].char_start) = {1}
         /\ 2 \in PagesHolding(doc, chunks[k].char_end - 1)
         /\ HasMetadataOfPage(chunks[k], doc, 1)
    /\ \E k \in 1..Len(chunks) :
         /\ PagesHolding(doc, chunks[k].char_start) = {1, 2}
         /\ HasMetadataOfPage(chunks[k], doc, 2)

(***************************************************************************)
(* C22: fixed_size strategy, skipped windows                               *)
(***************************************************************************)

\* The (char_start, char_end, text) triples of a chunk list
Triples(cs) == {<<cs[k].char_start, cs[k].char_end, cs[k].text>> : k \in 1..Len(cs)}

\* The configuration without filter and without floor
Unfiltered(c) ==
    [c EXCEPT !.language_filter = <<>>, !.include_tables = TRUE,
              !.include_diagrams = TRUE, !.min_chars_per_chunk = 0]

\* The page of start offset p passes the filters of c: the last listed of
\* the boundaries that hold p, and the defaults of a page of language
\* "unknown" without table or diagram when no boundary holds p
StartPagePasses(d, c, p) ==
    LET holding == PagesHolding(d, p)
        language_filters == ParseLanguageFilter(c.language_filter)
        last == CHOOSE i \in holding : \A j \in holding : j <= i
    IN  IF holding = {}
        THEN language_filters = <<>> \/ Unknown \in Range(language_filters)
        ELSE /\ language_filters = <<>>
                  \/ PageMeta(d, last).language \in Range(language_filters)
             /\ c.include_tables \/ ~IsTablePage(d, last)
             /\ c.include_diagrams \/ ~IsDiagramPage(d, last)

\* C22: for a document chunked with fixed_size and chunk_size >
\* chunk_overlap, the (char_start, char_end, text) triples of its chunks
\* are among those of the run without filter and with min_chars_per_chunk
\* = 0, and are exactly those of them whose start page passes the filters
\* and whose length is at least min_chars_per_chunk.
C22_SkippingShiftsNoWindow ==
    DocChunked /\ cfg.chunking_strategy = "fixed_size"
               /\ cfg.chunk_size > cfg.chunk_overlap
        => LET all == Triples(ChunkByFixedSize(doc, Unfiltered(cfg)))
           IN  /\ Triples(chunks) \subseteq all
               /\ Triples(chunks) =
                    {t \in all : /\ StartPagePasses(doc, cfg, t[1])
                                 /\ Len(t[3]) >= cfg.min_chars_per_chunk}

\* C22 witness: overlapping windows, the first one skipped by a filter and
\* the window that starts inside it emitted
C22_Witness ==
    /\ DocChunked /\ cfg.chunking_strategy = "fixed_size"
    /\ cfg.chunk_overlap > 0 /\ cfg.chunk_size > cfg.chunk_overlap
    /\ ~StartPagePasses(doc, cfg, 0)
    /\ chunks # <<>>
    /\ chunks[1].char_start = cfg.chunk_size - cfg.chunk_overlap
    /\ chunks[1].char_start < cfg.chunk_size

(***************************************************************************)
(* C23: semantic strategy, the metadata of a paragraph                     *)
(***************************************************************************)

\* C23: with the semantic strategy the chunks of a non-filtered page are,
\* in order, the paragraphs of the page that have at least
\* min_chars_per_chunk characters; each has the page's page_number,
\* language, has_table and has_diagram, and its paragraph_index is the
\* position from 0 of its paragraph among all the paragraphs of the page,
\* the dropped ones included, so the indices increase strictly within a
\* page and start over at each page.
C23_ParagraphIndexWithinPage ==
    DocChunked /\ cfg.chunking_strategy = "semantic" /\ DistinctPageNumbers(doc)
        => \A i \in 1..Len(doc.pages) :
             LET paragraphs == Paragraphs(PageText(doc, i))
                 kept == {k \in 1..Len(paragraphs) :
                            Len(paragraphs[k]) >= cfg.min_chars_per_chunk}
                 cs == ChunksOfPage(doc, i, chunks)
             IN  ~Filtered(PageMeta(doc, i), cfg)
                   => /\ Len(cs) = Cardinality(kept)
                      /\ \A n \in 1..Len(cs) :
                           /\ HasMetadataOfPage(cs[n], doc, i)
                           /\ cs[n].paragraph_index + 1 \in kept
                           /\ cs[n].text = paragraphs[cs[n].paragraph_index + 1]
                           /\ n > 1 => cs[n - 1].paragraph_index < cs[n].paragraph_index

\* C23 witness: two pages of two paragraphs each, the first paragraph of
\* each page dropped and the second emitted with paragraph_index 1
C23_Witness ==
    /\ DocChunked /\ cfg.chunking_strategy = "semantic"
    /\ Len(doc.pages) = 2
    /\ Len(Paragraphs(PageText(doc, 1))) = 2
    /\ Len(chunks) = 2
    /\ chunks[1].paragraph_index = 1 /\ chunks[1].page_number = doc.pages[1][3]
    /\ chunks[2].paragraph_index = 1 /\ chunks[2].page_number = doc.pages[2][3]

(***************************************************************************)
(* C24: a failure in one file                                              *)
(***************************************************************************)

\* The files in which a line ends the reading
FailingFiles(fs, c) ==
    {f \in 1..Len(fs) : \E l \in 1..Len(fs[f]) : EndsFile(fs[f][l], c)}

\* C24: an invocation over files of which some fail (a malformed line, a
\* record without an attribute array, a page boundary that is not a
\* triple) returns, and what it returns holds, file after file, the chunks
\* of the lines read before the failure and the chunks of the files that
\* do not fail (empty records aside, which yield nothing).
C24_FailureStaysInItsFile ==
    Returned /\ EarlyReturn = "none" /\ cfg.max_chunks = 0
             /\ FailingFiles(files, cfg) # {}
        => /\ ret = Some(ChunksOfRecordsRead(WithoutEmptyRecords(files), cfg))
           /\ status = ret

\* C24 witness: three files, the first fails after a line that gave a
\* chunk, the second at its first line while chunking, the third does not
\* fail: the chunks of the first line and of the third file are returned
C24_Witness ==
    /\ Returned /\ cfg.max_chunks = 0
    /\ FailingFiles(files, cfg) = {1, 2}
    /\ Len(files) = 3
    /\ IsDocument(files[2][1]) /\ IsDocument(files[1][2])
    /\ Len(ret[1]) = 2
    /\ \A k \in 1..2 : ret[1][k].source_file = PathName(DocY.source)

(***************************************************************************)
(* C25: the statistics of an invocation                                    *)
(***************************************************************************)

\* The records of the files that are chunked: non-empty text and page
\* boundaries, read before anything ends the reading of their file
RecordsChunked(fs, c) ==
    Flatten([f \in 1..Len(fs) |-> SelectSeq(LinesRead(fs[f], c, 1), IsDocument)])

\* C25: the statistics an invocation that found JSONL files records agree
\* with what it returns: total_chunks is the length of the returned list
\* (at most max_chunks when max_chunks > 0), jsonl_files the number of
\* files, documents_processed the number of records chunked, those that
\* gave no chunk included.
C25_StatisticsAgreeWithResult ==
    EarlyReturn = "none"
        => \A j \in 1..Len(calls) :
             /\ calls[j].stats # None
             /\ calls[j].stats[1].total_chunks = Len(calls[j].result)
             /\ calls[j].max_chunks > 0
                  => calls[j].stats[1].total_chunks <= calls[j].max_chunks
             /\ calls[j].stats[1].jsonl_files = Len(files)
             /\ calls[j].stats[1].documents_processed = Len(RecordsChunked(files, cfg))

\* C25 witness: an invocation that counts a record of which the filters
\* left nothing, and a second one whose list max_chunks cut
C25_Witness ==
    /\ EarlyReturn = "none" /\ ~NoFilter
    /\ Len(calls) = 2
    /\ calls[1].stats[1].documents_processed >= 2 /\ calls[1].stats[1].total_chunks >= 2
    /\ calls[2].max_chunks > 0
    /\ calls[2].stats[1].total_chunks = calls[2].max_chunks
    /\ calls[2].stats[1].total_chunks < calls[1].stats[1].total_chunks
    /\ \E l \in 1..Len(files[1]) :
         IsDocument(files[1][l]) /\ ChunksOfDocument(files[1][l], cfg) = <<>>

(***************************************************************************)
(* C26: a chunking_strategy that is none of the options                    *)
(***************************************************************************)

Strategies == {"page", "semantic", "fixed_size"}

\* C26: an invocation whose chunking_strategy is none of page, semantic
\* and fixed_size returns, and returns what the page strategy gives for
\* the same files and the same other inputs, every chunk with
\* chunking_strategy "page".
C26_UnknownStrategyIsPage ==
    Returned /\ EarlyReturn = "none" /\ cfg.chunking_strategy \notin Strategies
        => /\ ret = Some(Truncate(
                      ChunksOfRecordsRead(WithoutEmptyRecords(files),
                                          [cfg EXCEPT !.chunking_strategy = "page"]),
                      cfg.max_chunks))
           /\ \A k \in 1..Len(ret[1]) : ret[1][k].chunking_strategy = "page"

\* C26 witness: an invocation with the strategy "auto" that returned the
\* chunks of two documents, one of them of a page with two paragraphs
C26_Witness ==
    /\ Returned /\ cfg.chunking_strategy \notin Strategies
    /\ Len(ret[1]) >= 2
    /\ \E k \in 1..Len(ret[1]) :
         /\ ret[1][k].chunking_strategy = "page"
         /\ ~NoBlankLine(ret[1][k].text)

(***************************************************************************)
(* C27: attribute arrays shorter than the page boundaries                  *)
(***************************************************************************)

\* The pages a chunk is from: the last listed of the boundaries that hold
\* the start of a fixed_size window, the page of its page number otherwise
PagesOfChunk(d, chunk) ==
    IF chunk.chunking_strategy = "fixed_size"
    THEN {i \in PagesHolding(d, chunk.char_start) :
            \A j \in PagesHolding(d, chunk.char_start) : j <= i}
    ELSE {i \in 1..Len(d.pages) : d.pages[i][3] = chunk.page_number}

\* The chunks of a list that are from page i, chunk_index aside
ChunksFromPage(d, i, cs) ==
    LET from == SelectSeq(cs, LAMBDA chunk : i \in PagesOfChunk(d, chunk))
    IN  [k \in 1..Len(from) |-> [from[k] EXCEPT !.chunk_index = 0]]

\* The configuration without the table and diagram filters
WithTablesAndDiagrams(c) == [c EXCEPT !.include_tables = TRUE, !.include_diagrams = TRUE]

\* C27: in every strategy a chunk from a page past the end of
\* primary_language has language "unknown", past the end of is_table
\* has_table = false, past the end of is_diagram has_diagram = false; a
\* page past the end of primary_language gives no chunk under a non-empty
\* language filter that does not list "unknown"; and a page past the end
\* of is_table and is_diagram gives the chunks it gives with
\* include_tables and include_diagrams true.
C27_ShortArraysGiveDefaults ==
    DocChunked /\ DistinctPageNumbers(doc)
        => LET language_filters == ParseLanguageFilter(cfg.language_filter)
           IN  /\ \A k \in 1..Len(chunks) : \A i \in PagesOfChunk(doc, chunks[k]) :
                    /\ i > Len(doc.primary_language) => chunks[k].language = Unknown
                    /\ i > Len(doc.is_table) => ~chunks[k].has_table
                    /\ i > Len(doc.is_diagram) => ~chunks[k].has_diagram
               /\ \A i \in 1..Len(doc.pages) :
                    /\ i > Len(doc.primary_language)
                         /\ language_filters # <<>>
                         /\ Unknown \notin Range(language_filters)
                         => ChunksFromPage(doc, i, chunks) = <<>>
                    /\ i > Len(doc.is_table) /\ i > Len(doc.is_diagram)
                         => ChunksFromPage(doc, i, chunks) =
                              ChunksFromPage(doc, i,
                                  ChunksOfDocument(doc, WithTablesAndDiagrams(cfg)))

\* C27 witness: a page past the end of the three arrays, emitted with the
\* defaults while the table filter is on and excludes the page before it
C27_Witness ==
    /\ DocChunked /\ ~cfg.include_tables
    /\ Len(doc.pages) = 2 /\ Len(doc.primary_language) = 1
    /\ Len(doc.is_table) = 1 /\ Len(doc.is_diagram) = 1
    /\ doc.is_table[1]
    /\ ChunksFromPage(doc, 1, chunks) = <<>>
    /\ ChunksFromPage(doc, 2, chunks) # <<>>
    /\ \A k \in 1..Len(chunks) :
         chunks[k].language = Unknown /\ ~chunks[k].has_table /\ ~chunks[k].has_diagram

(***************************************************************************)
(* C28: the spelling of language_filter                                    *)
(***************************************************************************)

\* C28: the chunks of a document under a filter spelled like "en" but for
\* letter case, surrounding whitespace and empty entries are those under
\* the filter "en"; under a filter of whitespace and commas only they are
\* those under no language filter; and under any language filter a page
\* whose primary_language is not lowercase gives no chunk.
C28_FilterIsNormalised ==
    DocChunked
        => /\ cfg.language_filter \in EnglishSpellings
                => chunks = ChunksOfDocument(doc, [cfg EXCEPT !.language_filter = EN])
           /\ cfg.language_filter \in BlankSpellings
                => chunks = ChunksOfDocument(doc, [cfg EXCEPT !.language_filter = <<>>])
           /\ ParseLanguageFilter(cfg.language_filter) # <<>> /\ DistinctPageNumbers(doc)
                => \A i \in 1..Len(doc.pages) :
                     PageMeta(doc, i).language # LowerStr(PageMeta(doc, i).language)
                        => ChunksFromPage(doc, i, chunks) = <<>>

\* C28 witness: the filter "eN " after an empty entry, over a document
\* with an "en" page and an "EN" page: only the "en" page gives chunks
C28_Witness ==
    /\ DocChunked
    /\ cfg.language_filter = <<",", "e", "N", SP>>
    /\ doc.primary_language = <<EN, <<"E", "N">> >>
    /\ ChunksFromPage(doc, 1, chunks) # <<>>
    /\ ChunksFromPage(doc, 2, chunks) = <<>>

\* ---------------------------------------------------------------------------
\* The directory processor, OlmOCRDirectory (olmocr_directory.py)
\* ---------------------------------------------------------------------------

MaxDirCalls == 4   \* calls of output methods followed on one component instance

\* The methods behind the four outputs of the component
OutputMethods == {"process_directory", "get_output_directory", "get_workspace_path",
                  "get_processing_data"}
Getters == OutputMethods \ {"process_directory"}

\* The attribute a getter tests and returns
Stored(m) ==
    CASE m = "get_output_directory" -> m_output_directory
      [] m = "get_workspace_path" -> m_workspace_path
      [] m = "get_processing_data" -> m_processing_data
      [] OTHER -> None

\* A getter that runs the pipeline whatever is stored
NeedsProcessingAlways(m) == TRUE

\* process_directory runs when it is called itself, or by a getter whose attribute is
\* unset: "if not self._output_directory: self.process_directory()"
NeedsProcessing(m) == m = "process_directory" \/ Stored(m) = None

\* An output method is called
DirCall(m) ==
    /\ d_pc = "idle"
    /\ Len(d_calls) < MaxDirCalls
    /\ d_call' = [NoDirCall EXCEPT !.method = m]
    /\ d_pc' = IF NeedsProcessing(m) THEN "process" ELSE "return"
    /\ UNCHANGED <<m_output_directory, m_workspace_path, m_processing_data, runs, d_calls>>
    /\ UNCHANGED pvars

\* What a run of process_directory that stores nothing leaves behind
RunEnds(outcome) ==
    /\ runs' = runs + 1
    /\ d_call' = [d_call EXCEPT !.ran = TRUE, !.outcome = outcome, !.run = runs + 1]
    /\ UNCHANGED <<m_output_directory, m_workspace_path, m_processing_data, d_calls>>
    /\ UNCHANGED pvars

\* input_directory is empty: the placeholder message, data {}
ProcessPlaceholder ==
    /\ d_pc = "process"
    /\ RunEnds("placeholder")
    /\ d_pc' = "return"

\* the directory is missing or no directory, server_url is empty, or no file was found:
\* a message with status "pending"
ProcessPending ==
    /\ d_pc = "process"
    /\ RunEnds("pending")
    /\ d_pc' = "return"

\* the pipeline exits with an error, times out, or leaves no result: the run raises
ProcessRaise ==
    /\ d_pc = "process"
    /\ RunEnds("raised")
    /\ d_pc' = "raise"

\* the pipeline succeeds: the three attributes are stored. The values of a run are
\* named by the run (the default workspace carries the time of the run)
ProcessSuccess ==
    /\ d_pc = "process"
    /\ runs' = runs + 1
    /\ m_output_directory' = Some(runs + 1)
    /\ m_workspace_path' = Some(runs + 1)
    /\ m_processing_data' = Some(runs + 1)
    /\ d_call' = [d_call EXCEPT !.ran = TRUE, !.outcome = "success", !.run = runs + 1]
    /\ d_pc' = "return"
    /\ UNCHANGED d_calls
    /\ UNCHANGED pvars

\* The method returns: a getter returns its attribute as it is now
DirReturn ==
    /\ d_pc = "return"
    /\ d_calls' = Append(d_calls, [d_call EXCEPT !.value = Stored(d_call.method)])
    /\ d_pc' = "idle"
    /\ d_call' = NoDirCall
    /\ UNCHANGED <<m_output_directory, m_workspace_path, m_processing_data, runs>>
    /\ UNCHANGED pvars

\* The exception of the run leaves the method
DirRaise ==
    /\ d_pc = "raise"
    /\ d_calls' = Append(d_calls, d_call)
    /\ d_pc' = "idle"
    /\ d_call' = NoDirCall
    /\ UNCHANGED <<m_output_directory, m_workspace_path, m_processing_data, runs>>
    /\ UNCHANGED pvars

\* The directory processor alone: the parser stays as constructed, with no file
DirInit ==
    /\ ParserInit([files |-> <<>>, cfg |-> Config("page", 1, 0, NoFilters, 0)])
    /\ DirectoryInit

DirNext ==
    \/ \E m \in OutputMethods : DirCall(m)
    \/ ProcessPlaceholder
    \/ ProcessPending
    \/ ProcessRaise
    \/ ProcessSuccess
    \/ DirReturn
    \/ DirRaise

DirSpec == DirInit /\ [][DirNext]_vars

\* The runs that succeeded in a call completed before call j
SuccessesBefore(j) == {d_calls[i].run : i \in {i \in 1..(j - 1) : d_calls[i].outcome = "success"}}

\* The most recent of these runs
LastSuccessBefore(j) ==
    CHOOSE r \in SuccessesBefore(j) : \A q \in SuccessesBefore(j) : q <= r

====
